---- MODULE Spec2Model ----
(***************************************************************************)
(* A model of the images-proxy handlers:                                   *)
(*   - the image proxy wildcard route and the ProxyStats store,            *)
(*   - the catalog / Bing cache loaders, getWallpaperList and              *)
(*     getAvailableSources,                                                *)
(*   - the URL helpers validateImageUrl, convertToProxyUrl and             *)
(*     convertToOriginalUrl.                                               *)
(* Strings are sequences of tokens (a token is a run of characters that    *)
(* the code never splits: a separator, a name, an extension, a digit).     *)
(***************************************************************************)
EXTENDS Integers, Sequences, FiniteSets, TLC

VARIABLES
    clock,          \* Date.now()
    proxyStats,     \* the ProxyStats store
    pc,             \* per proxy request: idle | fetching | reading | done
    reqPath,        \* per proxy request: c.req.path
    startTime,      \* per proxy request: startTime (a local: 0 once the handler returned)
    originStatus,   \* per proxy request: response.status of the origin (0: none yet)
    calls,          \* per proxy request: the updateProxyStats calls it made
    fetches,        \* per proxy request: outbound fetches it issued
    resp,           \* per proxy request: the response it returned
    threw,          \* per proxy request: an exception reached the catch block
    apiCalls,       \* direct calls of updateProxyStats made so far
    hitOnFailure,   \* a call passed success = false with fromCache = true since the last reset
    cachedData,     \* the catalog cache: null or an array of WallpaperItem
    lastCacheTime,  \* the catalog cache: time of the fetch that filled it
    cachedBingData, \* the Bing cache: null or an array of BingWallpaperItem
    lastBingCacheTime,
    elapses,        \* how often time has been let pass between catalog calls
    loads,          \* per catalog / Bing call in flight: its handler, arguments and now
    returned,       \* the catalog / Bing call that returned last, with its result
    query,          \* the query string of the requests to /getWallpaperList
    conv            \* the URL conversion under way: input, config, results

proxyVars == <<proxyStats, pc, reqPath, startTime, originStatus, calls, fetches,
               resp, threw, apiCalls, hitOnFailure>>

catVars == <<cachedData, lastCacheTime, cachedBingData, lastBingCacheTime, elapses, loads,
            returned>>

vars == <<clock, proxyVars, catVars, query, conv>>

(***************************************************************************)
(* Bounds.                                                                 *)
(***************************************************************************)
MaxRequests == 2
MaxClock == 1
MaxApiCalls == 1
MaxCalls == 2
MaxElapses == 2

Requests == 1..MaxRequests
Calls == 1..MaxCalls

(***************************************************************************)
(* Strings as token sequences.                                             *)
(***************************************************************************)
Last(s) == s[Len(s)]

\* String.prototype.toLowerCase, token by token
LowerTok(t) ==
    CASE t = ".JPG" -> ".jpg"
      [] t = ".PNG" -> ".png"
      [] t = "A" -> "a"
      [] t = "U" -> "u"
      [] t = "P" -> "p"
      [] t = "INFINITYPRO-IMG.INFINITYNEWTAB.COM" -> "infinitypro-img.infinitynewtab.com"
      [] OTHER -> t

ToLowerCase(s) == [i \in 1..Len(s) |-> LowerTok(s[i])]

\* s.startsWith(p)
StartsWith(s, p) == Len(s) >= Len(p) /\ SubSeq(s, 1, Len(p)) = p

\* s.endsWith(p)
EndsWith(s, p) == Len(s) >= Len(p) /\ SubSeq(s, Len(s) - Len(p) + 1, Len(s)) = p

\* s.indexOf(p), 1-based; 0 when p does not occur
IndexOf(s, p) ==
    LET hits == {i \in 1..(Len(s) - Len(p) + 1) : SubSeq(s, i, i + Len(p) - 1) = p}
    IN IF hits = {} THEN 0 ELSE CHOOSE i \in hits : \A j \in hits : i <= j

\* s.replace(p, '') with a string pattern: the first occurrence only
ReplaceFirst(s, p) ==
    LET i == IndexOf(s, p)
    IN IF i = 0 THEN s ELSE SubSeq(s, 1, i - 1) \o SubSeq(s, i + Len(p), Len(s))

(***************************************************************************)
(* new URL(s): the WHATWG parser on token strings of the shape             *)
(*   scheme "//" host [port] path-tokens ["?query"] ["#fragment"].         *)
(* Anything else (the empty string, a string with no scheme) throws.       *)
(***************************************************************************)
Schemes == {"https:", "http:", "ftp:"}
HostToks == {"infinitypro-img.infinitynewtab.com",
             "INFINITYPRO-IMG.INFINITYNEWTAB.COM",
             "other.example.com", "your-domain.vercel.app"}
PortToks == {":8080", ":443"}
QueryToks == {"?w=1"}
HashToks == {"#f"}

\* the port the parser drops for a scheme
DefaultPort(scheme) == IF scheme = "https:" THEN ":443" ELSE ":none"

\* percent-encoding of a path token by the parser
EncodeTok(t) == IF t = "a b" THEN "a%20b" ELSE t

\* out without its last segment: "/a/b" -> "/a"
RemoveLastSeg(out) ==
    LET idx == {i \in 1..Len(out) : out[i] = "/"}
    IN IF idx = {} THEN <<>>
       ELSE SubSeq(out, 1, (CHOOSE i \in idx : \A j \in idx : j <= i) - 1)

\* the parser's handling of ".." path segments
RECURSIVE RemoveDotSegments(_, _)
RemoveDotSegments(in, out) ==
    IF in = <<>> THEN out
    ELSE IF /\ Len(in) >= 2 /\ in[1] = "/" /\ in[2] = ".."
            /\ (Len(in) = 2 \/ in[3] = "/")
         THEN IF Len(in) = 2
              THEN RemoveLastSeg(out) \o <<"/">>
              ELSE RemoveDotSegments(SubSeq(in, 3, Len(in)), RemoveLastSeg(out))
         ELSE RemoveDotSegments(Tail(in), Append(out, EncodeTok(Head(in))))

InvalidURL == [ok |-> FALSE, protocol |-> "", hostname |-> "", port |-> "",
               pathname |-> <<>>, search |-> "", hash |-> ""]

ParseURL(s) ==
    IF ~(Len(s) >= 3 /\ s[1] \in Schemes /\ s[2] = "//" /\ s[3] \in HostToks)
    THEN InvalidURL
    ELSE
      LET hasPort == Len(s) >= 4 /\ s[4] \in PortToks
          from == IF hasPort THEN 5 ELSE 4
          rest == SubSeq(s, from, Len(s))
          qs == {i \in 1..Len(rest) : rest[i] \in QueryToks}
          hs == {i \in 1..Len(rest) : rest[i] \in HashToks}
          stop == qs \cup hs
          cut == IF stop = {} THEN Len(rest) + 1
                 ELSE CHOOSE i \in stop : \A j \in stop : i <= j
          rawPath == SubSeq(rest, 1, cut - 1)
          path == RemoveDotSegments(rawPath, <<>>)
      IN IF rawPath # <<>> /\ rawPath[1] # "/" THEN InvalidURL
         ELSE [ok |-> TRUE,
               protocol |-> s[1],
               hostname |-> LowerTok(s[3]),
               port |-> IF hasPort /\ s[4] # DefaultPort(s[1]) THEN s[4] ELSE "",
               pathname |-> IF path = <<>> THEN <<"/">> ELSE path,
               search |-> IF qs = {} THEN "" ELSE rest[CHOOSE i \in qs : \A j \in qs : i <= j],
               hash |-> IF hs = {} THEN "" ELSE rest[CHOOSE i \in hs : \A j \in hs : i <= j]]

(***************************************************************************)
(* validateImageUrl                                                        *)
(***************************************************************************)
validExtensions == {<<".jpg">>, <<".jpeg">>, <<".png">>, <<".webp">>, <<".gif">>, <<".bmp">>}

\* a plausible slip: includes() for endsWith(), so an extension anywhere in the path passes
validateImageUrl_Includes(url) ==
    LET urlObj == ParseURL(url)
    IN IF ~urlObj.ok THEN [valid |-> FALSE, reason |-> "Invalid URL format"]
       ELSE IF urlObj.protocol \notin {"http:", "https:"}
            THEN [valid |-> FALSE, reason |-> "Invalid protocol"]
       ELSE IF ~(\E ext \in validExtensions :
                    IndexOf(ToLowerCase(urlObj.pathname), ext) # 0)
            THEN [valid |-> FALSE, reason |-> "Invalid image extension"]
       ELSE [valid |-> TRUE, reason |-> ""]

validateImageUrl(url) ==
    LET urlObj == ParseURL(url)
    IN IF ~urlObj.ok THEN [valid |-> FALSE, reason |-> "Invalid URL format"]
       ELSE IF urlObj.protocol \notin {"http:", "https:"}
            THEN [valid |-> FALSE, reason |-> "Invalid protocol"]
       ELSE IF ~(\E ext \in validExtensions :
                    EndsWith(ToLowerCase(urlObj.pathname), ext))
            THEN [valid |-> FALSE, reason |-> "Invalid image extension"]
       ELSE [valid |-> TRUE, reason |-> ""]

(***************************************************************************)
(* The ProxyStats store.  averageResponseTime is kept as an exact          *)
(* fraction [num, den] in lowest terms.                                    *)
(***************************************************************************)
RECURSIVE GCD(_, _)
GCD(a, b) == IF b = 0 THEN a ELSE GCD(b, a % b)

Rat(n, d) == LET g == GCD(n, d) IN IF g = 0 THEN [num |-> 0, den |-> 1]
                                   ELSE [num |-> n \div g, den |-> d \div g]

InitialStats(now) ==
    [totalRequests |-> 0, successfulRequests |-> 0, failedRequests |-> 0,
     cacheHits |-> 0, averageResponseTime |-> Rat(0, 1), lastRequestTime |-> now]

\* a plausible slip: the success counter is bumped only for requests not served from cache
updateProxyStats_HitNotSuccess(st, success, responseTime, fromCache, now) ==
    LET n == st.totalRequests + 1
        avg == st.averageResponseTime
    IN [totalRequests |-> n,
        lastRequestTime |-> now,
        successfulRequests |-> st.successfulRequests + (IF success /\ ~fromCache THEN 1 ELSE 0),
        failedRequests |-> st.failedRequests + (IF success THEN 0 ELSE 1),
        cacheHits |-> st.cacheHits + (IF fromCache THEN 1 ELSE 0),
        averageResponseTime |->
            Rat(avg.num * (n - 1) + responseTime * avg.den, avg.den * n)]

\* a plausible slip: the else is lost, so every request also counts as failed
updateProxyStats_NoElse(st, success, responseTime, fromCache, now) ==
    LET n == st.totalRequests + 1
        avg == st.averageResponseTime
    IN [totalRequests |-> n,
        lastRequestTime |-> now,
        successfulRequests |-> st.successfulRequests + (IF success THEN 1 ELSE 0),
        failedRequests |-> st.failedRequests + 1,
        cacheHits |-> st.cacheHits + (IF fromCache THEN 1 ELSE 0),
        averageResponseTime |->
            Rat(avg.num * (n - 1) + responseTime * avg.den, avg.den * n)]

updateProxyStats(st, success, responseTime, fromCache, now) ==
    LET n == st.totalRequests + 1
        avg == st.averageResponseTime
    IN [totalRequests |-> n,
        lastRequestTime |-> now,
        successfulRequests |-> st.successfulRequests + (IF success THEN 1 ELSE 0),
        failedRequests |-> st.failedRequests + (IF success THEN 0 ELSE 1),
        cacheHits |-> st.cacheHits + (IF fromCache THEN 1 ELSE 0),
        averageResponseTime |->
            Rat(avg.num * (n - 1) + responseTime * avg.den, avg.den * n)]

resetProxyStats(now) == InitialStats(now)

\* the store after the calls cs (a sequence of [success, fromCache]) made at time now
RECURSIVE ApplyCalls(_, _, _, _)
ApplyCalls(st, cs, responseTime, now) ==
    IF cs = <<>> THEN st
    ELSE ApplyCalls(updateProxyStats(st, Head(cs).success, responseTime,
                                     Head(cs).fromCache, now),
                    Tail(cs), responseTime, now)

(***************************************************************************)
(* The image proxy route app.get('/*'), one operator per synchronous       *)
(* stretch of the handler.  Each gives the updateProxyStats calls made,    *)
(* the response returned (status 0: none yet) and where the handler is     *)
(* afterwards.                                                             *)
(***************************************************************************)
RoutePrefix == <<"/", "api", "/", "findaphoto", "/">>
OriginBase == <<"https:", "//", "infinitypro-img.infinitynewtab.com", "/", "findaphoto", "/">>

\* c.req.path of the requests sent to the route
RequestPaths ==
    {<<"/", "api", "/", "findaphoto">> \o rest : rest \in
        {<<>>, <<"/">>, <<"/", "/">>,
         <<"/", "a", ".jpg">>, <<"/", "/", "a", ".PNG">>,
         <<"/", "a", ".txt">>, <<"/", "a", ".jpg", "/", "a">>}}

\* response.status of the origin
OriginStatuses == {200, 299, 304, 399, 400, 599, 600}

Call(success, fromCache) == [success |-> success, fromCache |-> fromCache]
NoResp == [status |-> 0, error |-> "", reason |-> "", cacheStatus |-> ""]
Json(status, error, reason) ==
    [status |-> status, error |-> error, reason |-> reason, cacheStatus |-> ""]

\* lines 49-54: c.req.param('*') is undefined on a wildcard route, so the path is
\* c.req.path with the route prefix removed, then one leading slash stripped
ProxyPath(path) ==
    LET p == ReplaceFirst(path, RoutePrefix)
    IN IF StartsWith(p, <<"/">>) THEN Tail(p) ELSE p

OriginalUrl(path) == OriginBase \o path

\* the catch block
OnError ==
    [calls |-> <<Call(FALSE, FALSE)>>, next |-> "done", threw |-> TRUE,
     resp |-> Json(500, "Internal server error", "")]

\* from the start of the handler to the await of fetch
OnRequest(path) ==
    LET p == ProxyPath(path)
        validation == validateImageUrl(OriginalUrl(p))
    IN IF p = <<>>
       THEN [calls |-> <<Call(FALSE, FALSE)>>, next |-> "done", threw |-> FALSE,
             resp |-> Json(400, "Path is required", "")]
       ELSE IF ~validation.valid
       THEN [calls |-> <<Call(FALSE, FALSE)>>, next |-> "done", threw |-> FALSE,
             resp |-> Json(400, "Invalid image URL", validation.reason)]
       ELSE [calls |-> <<>>, next |-> "fetching", threw |-> FALSE, resp |-> NoResp]

\* a plausible slip: the upper end of the status range taken inclusive
OnResponse_ClampInclusive(status) ==
    IF status = 304
    THEN [calls |-> <<Call(TRUE, TRUE)>>, next |-> "done", threw |-> FALSE,
          resp |-> [status |-> 304, error |-> "", reason |-> "",
                    cacheStatus |-> "not-modified"]]
    ELSE IF ~(status >= 200 /\ status <= 299)
    THEN [calls |-> <<Call(FALSE, FALSE)>>, next |-> "done", threw |-> FALSE,
          resp |-> Json(IF status >= 400 /\ status <= 600 THEN status ELSE 404,
                        "Image not found", "")]
    ELSE [calls |-> <<>>, next |-> "reading", threw |-> FALSE, resp |-> NoResp]

\* from the origin's response to the await of arrayBuffer
OnResponse(status) ==
    IF status = 304
    THEN [calls |-> <<Call(TRUE, TRUE)>>, next |-> "done", threw |-> FALSE,
          resp |-> [status |-> 304, error |-> "", reason |-> "",
                    cacheStatus |-> "not-modified"]]
    ELSE IF ~(status >= 200 /\ status <= 299)
    THEN [calls |-> <<Call(FALSE, FALSE)>>, next |-> "done", threw |-> FALSE,
          resp |-> Json(IF status >= 400 /\ status < 600 THEN status ELSE 404,
                        "Image not found", "")]
    ELSE [calls |-> <<>>, next |-> "reading", threw |-> FALSE, resp |-> NoResp]

\* a plausible slip: the statistics are updated before the headers are built, so a
\* throwing headers.set is counted twice (once as a success, once by the catch block)
OnBody_UpdateFirst(headersOk) ==
    IF headersOk
    THEN [calls |-> <<Call(TRUE, FALSE)>>, next |-> "done", threw |-> FALSE,
          resp |-> [status |-> 200, error |-> "", reason |-> "", cacheStatus |-> "miss"]]
    ELSE [calls |-> <<Call(TRUE, FALSE)>> \o OnError.calls, next |-> "done",
          threw |-> TRUE, resp |-> OnError.resp]

\* from the body to the return; headersOk: no headers.set call throws
OnBody(headersOk) ==
    IF headersOk
    THEN [calls |-> <<Call(TRUE, FALSE)>>, next |-> "done", threw |-> FALSE,
          resp |-> [status |-> 200, error |-> "", reason |-> "", cacheStatus |-> "miss"]]
    ELSE OnError

(***************************************************************************)
(* Initial state and the actions of the proxy route.                       *)
(***************************************************************************)
InitProxy ==
    /\ proxyStats = InitialStats(0)
    /\ pc = [r \in Requests |-> "idle"]
    /\ reqPath = [r \in Requests |-> <<>>]
    /\ startTime = [r \in Requests |-> 0]
    /\ originStatus = [r \in Requests |-> 0]
    /\ calls = [r \in Requests |-> <<>>]
    /\ fetches = [r \in Requests |-> 0]
    /\ resp = [r \in Requests |-> NoResp]
    /\ threw = [r \in Requests |-> FALSE]
    /\ apiCalls = 0
    /\ hitOnFailure = FALSE

\* time passes between two steps of the event loop
Tick ==
    /\ clock < MaxClock
    /\ clock' = clock + 1
    /\ UNCHANGED <<proxyVars, catVars, query, conv>>

\* request r, started at start, runs on with outcome out: its calls reach the store, its response is kept
Advance(r, out, start) ==
    /\ proxyStats' = ApplyCalls(proxyStats, out.calls, clock - start, clock)
    /\ calls' = [calls EXCEPT ![r] = @ \o out.calls]
    /\ pc' = [pc EXCEPT ![r] = out.next]
    /\ resp' = [resp EXCEPT ![r] = out.resp]
    /\ threw' = [threw EXCEPT ![r] = out.threw]

\* a GET arrives (requests are numbered in arrival order) and runs to its first await
Receive(r, path) ==
    /\ pc[r] = "idle"
    /\ \A q \in Requests : q < r => pc[q] # "idle"
    /\ reqPath' = [reqPath EXCEPT ![r] = path]
    /\ startTime' = [startTime EXCEPT ![r] = IF OnRequest(path).next = "done" THEN 0 ELSE clock]
    /\ Advance(r, OnRequest(path), clock)
    /\ fetches' = [fetches EXCEPT ![r] = IF OnRequest(path).next = "fetching" THEN 1 ELSE 0]
    /\ UNCHANGED <<clock, originStatus, apiCalls, hitOnFailure, catVars, query, conv>>

\* the origin answers with a status
FetchResolve(r, status) ==
    /\ pc[r] = "fetching"
    /\ originStatus' = [originStatus EXCEPT ![r] = status]
    /\ Advance(r, OnResponse(status), startTime[r])
    /\ startTime' = [startTime EXCEPT ![r] = IF OnResponse(status).next = "done" THEN 0 ELSE @]
    /\ UNCHANGED <<clock, reqPath, fetches, apiCalls, hitOnFailure, catVars, query, conv>>

\* fetch rejects (network failure)
FetchReject(r) ==
    /\ pc[r] = "fetching"
    /\ Advance(r, OnError, startTime[r])
    /\ startTime' = [startTime EXCEPT ![r] = 0]
    /\ UNCHANGED <<clock, reqPath, originStatus, fetches, apiCalls, hitOnFailure, catVars, query, conv>>

\* response.arrayBuffer() resolves and the handler builds its response
BodyResolve(r, headersOk) ==
    /\ pc[r] = "reading"
    /\ Advance(r, OnBody(headersOk), startTime[r])
    /\ startTime' = [startTime EXCEPT ![r] = 0]
    /\ UNCHANGED <<clock, reqPath, originStatus, fetches, apiCalls, hitOnFailure, catVars, query, conv>>

\* response.arrayBuffer() rejects (the body stream fails)
BodyReject(r) ==
    /\ pc[r] = "reading"
    /\ Advance(r, OnError, startTime[r])
    /\ startTime' = [startTime EXCEPT ![r] = 0]
    /\ UNCHANGED <<clock, reqPath, originStatus, fetches, apiCalls, hitOnFailure, catVars, query, conv>>

\* another caller of the exported updateProxyStats, with any arguments
ApiUpdate(success, responseTime, fromCache) ==
    /\ apiCalls < MaxApiCalls
    /\ apiCalls' = apiCalls + 1
    /\ proxyStats' = updateProxyStats(proxyStats, success, responseTime, fromCache, clock)
    /\ hitOnFailure' = (hitOnFailure \/ (fromCache /\ ~success))
    /\ UNCHANGED <<clock, pc, reqPath, startTime, originStatus, calls, fetches, resp, threw, catVars, query, conv>>

\* a caller of the exported resetProxyStats
ApiReset ==
    /\ proxyStats.totalRequests > 0
    /\ proxyStats' = resetProxyStats(clock)
    /\ hitOnFailure' = FALSE
    /\ UNCHANGED <<clock, pc, reqPath, startTime, originStatus, calls, fetches, resp,
                   threw, apiCalls, catVars, query, conv>>

\* the steps of the route for requests with the given paths and origin statuses
ProxySteps(paths, statuses) ==
    \/ \E r \in Requests, path \in paths : Receive(r, path)
    \/ \E r \in Requests, status \in statuses : FetchResolve(r, status)
    \/ \E r \in Requests : FetchReject(r)
    \/ \E r \in Requests, headersOk \in BOOLEAN : BodyResolve(r, headersOk)
    \/ \E r \in Requests : BodyReject(r)

(***************************************************************************)
(* Values of the catalog handlers.  A value that may be null or undefined  *)
(* is [set, v]; parseInt gives [nan, n].                                   *)
(***************************************************************************)
Null == [set |-> FALSE, v |-> <<>>]
Some(x) == [set |-> TRUE, v |-> x]

\* truthiness of a string | undefined
StrTruthy(x) == x.set /\ x.v # <<>>

DigitToks == {"0", "1", "2", "3", "4", "5", "6", "7", "8", "9"}
DigitVal(t) ==
    CASE t = "0" -> 0 [] t = "1" -> 1 [] t = "2" -> 2 [] t = "3" -> 3 [] t = "4" -> 4
      [] t = "5" -> 5 [] t = "6" -> 6 [] t = "7" -> 7 [] t = "8" -> 8 [] t = "9" -> 9

\* String.prototype.trim
RECURSIVE TrimStart(_)
TrimStart(s) == IF s # <<>> /\ Head(s) = " " THEN TrimStart(Tail(s)) ELSE s
RECURSIVE TrimEnd(_)
TrimEnd(s) == IF s # <<>> /\ Last(s) = " " THEN TrimEnd(SubSeq(s, 1, Len(s) - 1)) ELSE s
Trim(s) == TrimEnd(TrimStart(s))

\* the value of the longest prefix of digits of s, and its length
RECURSIVE DigitsPrefix(_, _, _)
DigitsPrefix(s, acc, n) ==
    IF s # <<>> /\ Head(s) \in DigitToks
    THEN DigitsPrefix(Tail(s), 10 * acc + DigitVal(Head(s)), n + 1)
    ELSE [value |-> acc, len |-> n]

\* parseInt(s, 10): leading white space, an optional sign, then digits up to the first
\* character that is none; NaN when there is no digit
ParseInt(s) ==
    LET t == TrimStart(s)
        signed == t # <<>> /\ Head(t) \in {"-", "+"}
        body == IF signed THEN Tail(t) ELSE t
        d == DigitsPrefix(body, 0, 0)
    IN IF d.len = 0 THEN [nan |-> TRUE, n |-> 0]
       ELSE [nan |-> FALSE, n |-> IF signed /\ Head(t) = "-" THEN 0 - d.value ELSE d.value]

\* Math.ceil(a / b) for a >= 0, b >= 1
CeilDiv(a, b) == (a + b - 1) \div b

\* Array.prototype.slice(from, to) with 0 <= from <= to
Slice(arr, from, to) ==
    LET hi == IF to < Len(arr) THEN to ELSE Len(arr)
    IN IF from >= hi THEN <<>> ELSE SubSeq(arr, from + 1, hi)

\* UTF-16 order of the tokens source names are made of
TokOrd(t) ==
    CASE t = " " -> 32 [] t = "P" -> 80 [] t = "U" -> 85 [] t = "exels" -> 101
      [] t = "nsplash" -> 110 [] t = "p" -> 112 [] t = "u" -> 117 [] OTHER -> 0

\* a < b in the default order of Array.prototype.sort
RECURSIVE StrLess(_, _)
StrLess(a, b) ==
    IF b = <<>> THEN FALSE
    ELSE IF a = <<>> THEN TRUE
    ELSE IF Head(a) = Head(b) THEN StrLess(Tail(a), Tail(b))
    ELSE TokOrd(Head(a)) < TokOrd(Head(b))

\* [...new Set(xs)].sort()
RECURSIVE SortSet(_)
SortSet(S) ==
    IF S = {} THEN <<>>
    ELSE LET m == CHOOSE x \in S : \A y \in S \ {x} : StrLess(x, y)
         IN <<m>> \o SortSet(S \ {m})

(***************************************************************************)
(* The catalog and Bing loaders.                                           *)
(***************************************************************************)
CACHE_DURATION == 5 * 60 * 1000
BING_CACHE_DURATION == 60 * 60 * 1000

\* a plausible slip: <= for <, so the entry is still served at exactly TTL
CacheValid_Inclusive(cached, last, now, ttl) ==
    cached.set /\ (now - last) <= ttl

\* cachedData && (now - lastCacheTime) < CACHE_DURATION: an array, also an empty one, is truthy
CacheValid(cached, last, now, ttl) ==
    cached.set /\ (now - last) < ttl

\* a plausible slip: the expired entry is served when the fetch fails
AfterFetch_StaleFallback(cached, last, now, ok, body) ==
    IF ok
    THEN [data |-> Some(body), time |-> now, ret |-> Some(body)]
    ELSE [data |-> cached, time |-> last, ret |-> cached]

\* loadWallpaperData / loadBingWallpaperData from the fetch on: the cache afterwards and
\* the value returned (not set: the loader throws)
AfterFetch(cached, last, now, ok, body) ==
    IF ok
    THEN [data |-> Some(body), time |-> now, ret |-> Some(body)]
    ELSE [data |-> cached, time |-> last, ret |-> Null]

(***************************************************************************)
(* getWallpaperList, getAvailableSources, getBingWallpaperList from the    *)
(* loader's return on, and the routes' status codes.                       *)
(***************************************************************************)
ListResponse(code, list, total, page, totalPage, message) ==
    [code |-> code, list |-> list, total |-> total, page |-> page,
     totalPage |-> totalPage, message |-> message]

SourceMatches(item, source) ==
    IndexOf(ToLowerCase(item.source), ToLowerCase(source)) # 0

\* a plausible slip: the first index of the page taken as currentPage * pageSize
getWallpaperListBody_OffByOnePage(allData, page, source, pageSize) ==
    LET filteredData ==
            IF StrTruthy(source) /\ Trim(source.v) # <<>>
            THEN SelectSeq(allData, LAMBDA item : SourceMatches(item, source.v))
            ELSE allData
        currentPage == ParseInt(IF StrTruthy(page) THEN page.v ELSE <<"1">>)
    IN IF currentPage.nan \/ currentPage.n < 1
       THEN ListResponse(400, <<>>, 0, 1, 0, "Invalid page number")
       ELSE LET total == Len(filteredData)
                startIndex == currentPage.n * pageSize
            IN ListResponse(200, Slice(filteredData, startIndex, startIndex + pageSize),
                            total, currentPage.n, CeilDiv(total, pageSize), "Success")

\* a plausible slip: page 0 let through (< 0 for < 1)
getWallpaperListBody_PageZero(allData, page, source, pageSize) ==
    LET filteredData ==
            IF StrTruthy(source) /\ Trim(source.v) # <<>>
            THEN SelectSeq(allData, LAMBDA item : SourceMatches(item, source.v))
            ELSE allData
        currentPage == ParseInt(IF StrTruthy(page) THEN page.v ELSE <<"1">>)
    IN IF currentPage.nan \/ currentPage.n < 0
       THEN ListResponse(400, <<>>, 0, 1, 0, "Invalid page number")
       ELSE LET total == Len(filteredData)
                startIndex == (currentPage.n - 1) * pageSize
                from == IF startIndex < 0 THEN 0 ELSE startIndex
            IN ListResponse(200, Slice(filteredData, from, startIndex + pageSize),
                            total, currentPage.n, CeilDiv(total, pageSize), "Success")

\* the try block after the load
getWallpaperListBody(allData, page, source, pageSize) ==
    LET filteredData ==
            IF StrTruthy(source) /\ Trim(source.v) # <<>>
            THEN SelectSeq(allData, LAMBDA item : SourceMatches(item, source.v))
            ELSE allData
        currentPage == ParseInt(IF StrTruthy(page) THEN page.v ELSE <<"1">>)
    IN IF currentPage.nan \/ currentPage.n < 1
       THEN ListResponse(400, <<>>, 0, 1, 0, "Invalid page number")
       ELSE LET total == Len(filteredData)
                startIndex == (currentPage.n - 1) * pageSize
            IN ListResponse(200, Slice(filteredData, startIndex, startIndex + pageSize),
                            total, currentPage.n, CeilDiv(total, pageSize), "Success")

\* getWallpaperList given what the loader returned
getWallpaperList(loaded, page, source, pageSize) ==
    IF loaded.set
    THEN getWallpaperListBody(loaded.v, page, source, pageSize)
    ELSE ListResponse(500, <<>>, 0, 1, 0, "Internal server error")

\* the status app.get('/getWallpaperList') answers with
ListRouteStatus(data) ==
    IF data.code = 200 THEN 200 ELSE IF data.code = 400 THEN 400 ELSE 500

\* getAvailableSources given what the loader returned
getAvailableSources(loaded) ==
    IF loaded.set
    THEN SortSet({loaded.v[i].source : i \in 1..Len(loaded.v)})
    ELSE <<>>

BingResponse(code, url, list, total, date, message) ==
    [code |-> code, url |-> url, list |-> list, total |-> total, date |-> date,
     message |-> message]

\* getBingWallpaperList given what the loader returned; bingData[0].url of an empty
\* array is a TypeError, which the catch block turns into the 500 response
getBingWallpaperList(loaded, now) ==
    IF loaded.set /\ loaded.v # <<>>
    THEN BingResponse(200, <<"https://www.bing.com">> \o loaded.v[1].url, loaded.v,
                      Len(loaded.v), now, "Success")
    ELSE BingResponse(500, <<>>, <<>>, 0, now, "Internal server error")

(***************************************************************************)
(* Initial state and the actions of the catalog and Bing handlers.         *)
(***************************************************************************)
NoResult == <<>>

\* a call slot: free, or a handler waiting for its loader's fetch
IdleLoad ==
    [pc |-> "idle", kind |-> "none", now |-> 0, page |-> Null, source |-> Null,
     pageSize |-> 0]

\* the call that returned last: its arguments, the fetches it made, whether its fetch
\* failed, what its loader returned, its result and its route's HTTP status
NoCall ==
    [kind |-> "none", page |-> Null, source |-> Null, pageSize |-> 0, fetches |-> 0,
     failed |-> FALSE, loaded |-> Null, result |-> NoResult, http |-> 0]

InitCatalog ==
    /\ cachedData = Null
    /\ lastCacheTime = 0
    /\ cachedBingData = Null
    /\ lastBingCacheTime = 0
    /\ elapses = 0
    /\ loads = [c \in Calls |-> IdleLoad]
    /\ returned = NoCall

Unsplash == <<"U", "nsplash">>
UnsplashLower == <<"u", "nsplash">>
Pexels == <<"P", "exels">>
Item(id, source) == [id |-> id, source |-> source]

\* bodies of https://wallpaper.xyu.fan/all.json
SmallCatalog ==
    <<Item(1, Unsplash), Item(2, UnsplashLower), Item(3, Pexels), Item(4, Unsplash),
      Item(5, Pexels)>>
Catalog45 == [i \in 1..45 |-> Item(i, IF i % 9 = 0 THEN Pexels ELSE Unsplash)]

\* data.images || [] of the Bing feed
BingItem(n) == [url |-> <<"/th?id=", n>>]

\* time passes between two steps of the event loop
Elapse(d) ==
    /\ elapses < MaxElapses
    /\ elapses' = elapses + 1
    /\ clock' = clock + d
    /\ UNCHANGED <<proxyVars, cachedData, lastCacheTime, cachedBingData,
                   lastBingCacheTime, loads, returned, query, conv>>

\* the handler of call l runs from the loader's return to its own return
Finish(l, loaded, nFetches, fetchFailed, now) ==
    LET result ==
            CASE l.kind = "list" -> getWallpaperList(loaded, l.page, l.source, l.pageSize)
              [] l.kind = "sources" -> getAvailableSources(loaded)
              [] l.kind = "bing" -> getBingWallpaperList(loaded, now)
    IN [kind |-> l.kind, page |-> l.page, source |-> l.source, pageSize |-> l.pageSize,
        fetches |-> nFetches, failed |-> fetchFailed, loaded |-> loaded,
        result |-> result,
        http |-> IF l.kind = "list" THEN ListRouteStatus(result) ELSE 200]

\* a handler calls its loader, which answers from the cache or awaits its fetch
\* (the free slots are taken in order)
Start(c, kind, page, source, pageSize) ==
    LET bing == kind = "bing"
        cached == IF bing THEN cachedBingData ELSE cachedData
        last == IF bing THEN lastBingCacheTime ELSE lastCacheTime
        ttl == IF bing THEN BING_CACHE_DURATION ELSE CACHE_DURATION
        l == [pc |-> "fetching", kind |-> kind, now |-> clock, page |-> page,
              source |-> source, pageSize |-> pageSize]
    IN /\ loads[c].pc = "idle"
       /\ \A b \in Calls : b < c => loads[b].pc # "idle"
       /\ IF CacheValid(cached, last, clock, ttl)
          THEN /\ returned' = Finish(l, cached, 0, FALSE, clock)
               /\ UNCHANGED loads
          ELSE /\ loads' = [loads EXCEPT ![c] = l]
               /\ UNCHANGED returned
       /\ UNCHANGED <<clock, proxyVars, cachedData, lastCacheTime, cachedBingData,
                      lastBingCacheTime, elapses, query, conv>>

\* app.get('/getWallpaperList'): the query, parsedPageSize, then getWallpaperList
GetWallpaperList(c) ==
    Start(c, "list", query.page, query.source,
          IF StrTruthy(query.pageSize) THEN ParseInt(query.pageSize.v).n ELSE 20)

\* app.get('/getSources')
GetSources(c) == Start(c, "sources", Null, Null, 0)

\* getBingWallpaperList
GetBing(c) == Start(c, "bing", Null, Null, 0)

\* the fetch of call c ended: ok with a body, or not ok (non-2xx status, unparsable body)
FetchEnds(c, ok, body) ==
    LET l == loads[c]
        bing == l.kind = "bing"
        af == IF bing
              THEN AfterFetch(cachedBingData, lastBingCacheTime, l.now, ok, body)
              ELSE AfterFetch(cachedData, lastCacheTime, l.now, ok, body)
    IN /\ l.pc = "fetching"
       /\ loads' = [loads EXCEPT ![c] = IdleLoad]
       /\ returned' = Finish(l, af.ret, 1, ~ok, clock)
       /\ IF bing
          THEN /\ cachedBingData' = af.data
               /\ lastBingCacheTime' = af.time
               /\ UNCHANGED <<cachedData, lastCacheTime>>
          ELSE /\ cachedData' = af.data
               /\ lastCacheTime' = af.time
               /\ UNCHANGED <<cachedBingData, lastBingCacheTime>>
       /\ UNCHANGED <<clock, proxyVars, elapses, query, conv>>

CatalogResolve(c, body) == loads[c].kind \in {"list", "sources"} /\ FetchEnds(c, TRUE, body)
BingResolve(c, body) == loads[c].kind = "bing" /\ FetchEnds(c, TRUE, body)
LoadReject(c) == FetchEnds(c, FALSE, <<>>)

(***************************************************************************)
(* convertToProxyUrl / convertToOriginalUrl                                *)
(***************************************************************************)
DEFAULT_PROXY_CONFIG ==
    [baseUrl |-> <<"https:", "//", "your-domain.vercel.app">>,
     originalDomain |-> "infinitypro-img.infinitynewtab.com",
     proxyPath |-> <<"/", "api", "/", "wallpaper">>]

\* s.match(/<p>(.+)/)[1]: what follows the leftmost occurrence of p that is followed by
\* at least one character; Null when there is no match
MatchAfter(s, p) ==
    LET hits == {i \in 1..Len(s) :
                    i + Len(p) - 1 < Len(s) /\ SubSeq(s, i, i + Len(p) - 1) = p}
    IN IF hits = {} THEN Null
       ELSE LET i == CHOOSE h \in hits : \A j \in hits : h <= j
            IN Some(SubSeq(s, i + Len(p), Len(s)))

\* a plausible slip: pathMatch[0], the whole match, for pathMatch[1]
convertToProxyUrl_WholeMatch(originalUrl, config) ==
    LET url == ParseURL(originalUrl)
        pathMatch == MatchAfter(url.pathname, <<"/", "wallpaper", "/">>)
    IN IF ~url.ok THEN Null
       ELSE IF url.hostname # config.originalDomain THEN Null
       ELSE IF ~pathMatch.set THEN Null
       ELSE Some(config.baseUrl \o config.proxyPath \o <<"/">>
                 \o <<"/", "wallpaper", "/">> \o pathMatch.v)

convertToProxyUrl(originalUrl, config) ==
    LET url == ParseURL(originalUrl)
        pathMatch == MatchAfter(url.pathname, <<"/", "wallpaper", "/">>)
    IN IF ~url.ok THEN Null
       ELSE IF url.hostname # config.originalDomain THEN Null
       ELSE IF ~pathMatch.set THEN Null
       ELSE Some(config.baseUrl \o config.proxyPath \o <<"/">> \o pathMatch.v)

convertToOriginalUrl(proxyUrl, config) ==
    LET url == ParseURL(proxyUrl)
        pathMatch == MatchAfter(url.pathname, config.proxyPath \o <<"/">>)
    IN IF ~url.ok THEN Null
       ELSE IF ~pathMatch.set THEN Null
       ELSE Some(<<"https:", "//", config.originalDomain, "/", "wallpaper", "/">>
                 \o pathMatch.v)

\* conv: the URL being converted, the config, and the results so far
ToProxy ==
    /\ conv.phase = "input"
    /\ conv' = [conv EXCEPT !.phase = "proxied",
                            !.proxyUrl = convertToProxyUrl(conv.url, conv.config)]
    /\ UNCHANGED <<clock, proxyVars, catVars, query>>

ToOriginal ==
    /\ conv.phase = "proxied"
    /\ conv.proxyUrl.set
    /\ conv' = [conv EXCEPT !.phase = "back",
                            !.back = convertToOriginalUrl(conv.proxyUrl.v, conv.config)]
    /\ UNCHANGED <<clock, proxyVars, catVars, query>>

\* the proxy route under concurrent requests
DefaultQuery == [page |-> Some(<<"1">>), source |-> Null, pageSize |-> Null]

Init == clock = 0 /\ InitProxy /\ InitCatalog /\ query = DefaultQuery /\ conv = Null
Next == Tick \/ ProxySteps(RequestPaths, OriginStatuses)
Spec == Init /\ [][Next]_vars

\* the requests and origin answers the store is exercised with
StatsPaths == {<<"/", "api", "/", "findaphoto", "/">>,
               <<"/", "api", "/", "findaphoto", "/", "a", ".jpg">>}
StatsStatuses == {200, 304}

NextStats ==
    \/ Tick
    \/ ProxySteps(StatsPaths, StatsStatuses)
    \/ \E success \in BOOLEAN, responseTime \in {0, MaxClock}, fromCache \in BOOLEAN :
          ApiUpdate(success, responseTime, fromCache)
    \/ ApiReset

\* the store under the route's calls, direct calls and resets
SpecStats == Init /\ [][NextStats]_vars

\* what the loaders are exercised with: delays that reach both sides of each TTL
CatalogDelays == {1, CACHE_DURATION - 1}
BingDelays == {1, BING_CACHE_DURATION - 1}
CatalogBodies == {<<>>, <<Item(1, Unsplash)>>}
BingBodies == {<<>>, <<BingItem(1)>>}

\* a call of the given kinds is in flight or has returned
Touched(kinds) ==
    returned.kind \in kinds \/ \E c \in Calls : loads[c].kind \in kinds

\* The catalog loader and the Bing loader share no state but the clock, so a behaviour
\* exercises one of them: the one its first call picks.
NextCatalog ==
    \/ \E d \in CatalogDelays : Touched({"list", "sources"}) /\ Elapse(d)
    \/ \E d \in BingDelays : Touched({"bing"}) /\ Elapse(d)
    \/ \E c \in Calls : ~Touched({"bing"}) /\ GetWallpaperList(c)
    \/ \E c \in Calls : ~Touched({"bing"}) /\ GetSources(c)
    \/ \E c \in Calls : ~Touched({"list", "sources"}) /\ GetBing(c)
    \/ \E c \in Calls, body \in CatalogBodies : CatalogResolve(c, body)
    \/ \E c \in Calls, body \in BingBodies : BingResolve(c, body)
    \/ \E c \in Calls : LoadReject(c)

\* the loaders and their handlers under concurrent calls
SpecCatalog == Init /\ [][NextCatalog]_vars

\* the queries, catalogs and delays getWallpaperList is exercised with
Pages == {Null, Some(<<>>), Some(<<"0">>), Some(<<"1">>), Some(<<"2">>), Some(<<"3">>),
          Some(<<"4">>), Some(<<"a">>), Some(<<"-", "1">>), Some(<<"2", "a">>),
          Some(<<" ", "2">>)}
Filters == {Null, Some(<<>>), Some(<<" ">>), Some(<<"nsplash">>), Some(<<"U">>),
            Some(<<"p", "exels">>), Some(<<"x">>)}
PageSizes == {Null, Some(<<"1">>), Some(<<"2">>), Some(<<"3">>)}
ListBodies == {<<>>, SmallCatalog, Catalog45}

InitList ==
    /\ clock = 0 /\ InitProxy /\ InitCatalog /\ conv = Null
    /\ query \in [page : Pages, source : Filters, pageSize : PageSizes]

NextList ==
    \/ Elapse(CACHE_DURATION)
    \/ GetWallpaperList(1)
    \/ \E body \in ListBodies : CatalogResolve(1, body)
    \/ LoadReject(1)

\* getWallpaperList called again and again with one query, for every query
SpecList == InitList /\ [][NextList]_vars

\* the configs and URLs the converters are exercised with
Configs ==
    {DEFAULT_PROXY_CONFIG,
     [baseUrl |-> <<"http:", "//", "other.example.com", ":8080">>,
      originalDomain |-> "other.example.com",
      proxyPath |-> <<"/", "img">>]}
UrlPaths ==
    {<<>>, <<"/">>, <<"/", "wallpaper">>, <<"/", "wallpaper", "/">>,
     <<"/", "wallpaper", "/", "a", ".jpg">>,
     <<"/", "wallpaper", "/", "a", "/", "a", ".jpg">>,
     <<"/", "wallpaper", "/", "wallpaper", "/", "a">>,
     <<"/", "wallpaper", "/", "api", "/", "wallpaper", "/", "a">>,
     <<"/", "wallpaper", "/", "a b", ".jpg">>,
     <<"/", "wallpaper", "/", "..", "/", "a", ".jpg">>,
     <<"/", "wallpaper", "/", "x", "/", "..", "/", "a", ".jpg">>,
     <<"/", "x", "/", "wallpaper", "/", "a", ".jpg">>,
     <<"/", "findaphoto", "/", "a", ".jpg">>}
UrlInputs ==
    {<<sc, "//", h>> \o port \o path \o q \o f :
        sc \in Schemes, h \in HostToks,
        port \in {<<>>} \cup {<<x>> : x \in PortToks}, path \in UrlPaths,
        q \in {<<>>} \cup {<<x>> : x \in QueryToks},
        f \in {<<>>} \cup {<<x>> : x \in HashToks}}
    \cup {<<>>, <<"/", "wallpaper", "/", "a", ".jpg">>}

InitUrl ==
    /\ clock = 0 /\ InitProxy /\ InitCatalog /\ query = DefaultQuery
    /\ conv \in [phase : {"input"}, url : UrlInputs, config : Configs,
                 proxyUrl : {Null}, back : {Null}]

NextUrl == ToProxy \/ ToOriginal

\* convertToProxyUrl, then convertToOriginalUrl on its result, for every URL and config
SpecUrl == InitUrl /\ [][NextUrl]_vars

(***************************************************************************)
(* Properties of the statistics store and the proxy route.                 *)
(***************************************************************************)
Done == {r \in Requests : pc[r] = "done"}

\* C1: in every state reached by updateProxyStats calls with any arguments, resets and
\* concurrent proxy requests, successfulRequests + failedRequests = totalRequests and
\* cacheHits <= totalRequests.
C1_CountersAddUp ==
    /\ proxyStats.successfulRequests + proxyStats.failedRequests = proxyStats.totalRequests
    /\ proxyStats.cacheHits <= proxyStats.totalRequests

\* a direct call and two finished requests, one of them a cache hit, are in the counters
C1_Witness ==
    /\ apiCalls >= 1
    /\ Done = Requests
    /\ proxyStats.totalRequests >= 3
    /\ proxyStats.cacheHits >= 1
    /\ proxyStats.failedRequests >= 1

\* C2: every request that has returned made exactly one updateProxyStats call, a request
\* still in flight none; so, without resets, totalRequests is the number of completed
\* requests under every interleaving.
C2_OneUpdatePerRequest ==
    /\ \A r \in Requests : Len(calls[r]) = IF pc[r] = "done" THEN 1 ELSE 0
    /\ proxyStats.totalRequests = Cardinality(Done)

\* a request whose 2xx response threw while its headers were built has returned, beside
\* one that returned without an exception
C2_Witness ==
    \E r, q \in Requests :
        /\ pc[r] = "done" /\ threw[r] /\ originStatus[r] = 200
        /\ pc[q] = "done" /\ ~threw[q] /\ q # r

\* C3, as claimed: cacheHits <= successfulRequests after any sequence of updateProxyStats
\* and resetProxyStats calls, for all argument values.
C3_HitsWithinSuccesses ==
    proxyStats.cacheHits <= proxyStats.successfulRequests

\* C3, amended: cacheHits <= successfulRequests as long as no call since the last reset
\* passed fromCache = true together with success = false (the proxy route never does).
C3_HitsWithinSuccessesUnlessHitOnFailure ==
    ~hitOnFailure => proxyStats.cacheHits <= proxyStats.successfulRequests

\* a 304 and a direct call have been counted, no call was a hit on a failure
C3_Witness ==
    /\ ~hitOnFailure
    /\ apiCalls >= 1
    /\ proxyStats.cacheHits >= 1
    /\ \E r \in Requests : pc[r] = "done" /\ originStatus[r] = 304

\* what the claim C5 gives for origin status s: response status, X-Cache-Status, stats call
C5_Expected(s) ==
    IF s = 304 THEN [status |-> 304, call |-> Call(TRUE, TRUE)]
    ELSE IF s < 200 \/ s > 299
         THEN [status |-> IF 400 <= s /\ s < 600 THEN s ELSE 404, call |-> Call(FALSE, FALSE)]
         ELSE [status |-> 200, call |-> Call(TRUE, FALSE)]

C5_Agrees(r) ==
    /\ resp[r].status = C5_Expected(originStatus[r]).status
    /\ calls[r] = <<C5_Expected(originStatus[r]).call>>
    /\ (resp[r].status = 200 => resp[r].cacheStatus = "miss")
    /\ (resp[r].status \notin {200, 304} => resp[r].error = "Image not found")

\* C5, as claimed: once the origin fetch completed with status s, the response and the
\* stats update are a function of s alone.
C5_OutcomeByStatusAlone ==
    \A r \in Requests : pc[r] = "done" /\ originStatus[r] # 0 => C5_Agrees(r)

\* C5, amended: the outcome is that function of s unless reading the body or building the
\* headers of a 2xx response throws; then the response is 500 and the update is
\* (success = false, fromCache = false).
C5_OutcomeByStatusUnlessThrown ==
    \A r \in Requests : pc[r] = "done" /\ originStatus[r] # 0 =>
        IF threw[r]
        THEN /\ originStatus[r] >= 200 /\ originStatus[r] <= 299
             /\ resp[r].status = 500
             /\ calls[r] = <<Call(FALSE, FALSE)>>
        ELSE C5_Agrees(r)

\* one request answered from a status outside 400..599, one from a 2xx that threw
C5_Witness ==
    \E r, q \in Requests :
        /\ pc[r] = "done" /\ originStatus[r] = 600 /\ resp[r].status = 404
        /\ pc[q] = "done" /\ originStatus[q] = 299 /\ threw[q]

ImageExtensionToks == {".jpg", ".jpeg", ".png", ".webp", ".gif", ".bmp"}

\* the request path, one leading slash stripped, is non-empty and ends in an image extension
C6_PathAccepted(r) ==
    LET p == ProxyPath(reqPath[r])
    IN p # <<>> /\ LowerTok(Last(p)) \in ImageExtensionToks

\* C6: a fetch is issued only for a non-empty path whose origin URL ends, case-
\* insensitively, in an image extension; every other request returns 400, counts as one
\* failed request and fetches nothing.
C6_FetchOnlyAfterValidation ==
    \A r \in Requests : pc[r] # "idle" =>
        /\ fetches[r] > 0 => C6_PathAccepted(r)
        /\ ~C6_PathAccepted(r) =>
              /\ pc[r] = "done"
              /\ resp[r].status = 400
              /\ resp[r].error = IF ProxyPath(reqPath[r]) = <<>>
                                 THEN "Path is required" ELSE "Invalid image URL"
              /\ calls[r] = <<Call(FALSE, FALSE)>>
              /\ fetches[r] = 0

\* a path with the extension in the middle was refused, an upper-case extension fetched
C6_Witness ==
    \E r, q \in Requests :
        /\ pc[r] = "done" /\ resp[r].reason = "Invalid image extension"
        /\ ProxyPath(reqPath[r]) = <<"a", ".jpg", "/", "a">>
        /\ fetches[q] = 1 /\ Last(reqPath[q]) = ".PNG"

(***************************************************************************)
(* Properties of the loaders and the catalog handlers.                     *)
(***************************************************************************)
\* the cache of a handler's loader, and whether it is within its TTL now
C4_Cached(kind) == IF kind = "bing" THEN cachedBingData ELSE cachedData
C4_WithinTTL(kind) ==
    IF kind = "bing"
    THEN cachedBingData.set /\ clock - lastBingCacheTime < 60 * 60 * 1000
    ELSE cachedData.set /\ clock - lastCacheTime < 5 * 60 * 1000

\* a call returns in the step it is made in (no slot is taken, none is freed)
C4_ReturnsAtOnce == loads' = loads /\ returned' # returned

\* C4: a load() made while its cache is filled and within the TTL fetches nothing and
\* returns the cached array (an empty one too); any other load() awaits one fetch and
\* has made exactly one when it returns, whatever other calls are pending.
C4_FetchOnlyWhenExpired ==
    [][/\ \A c \in Calls : loads[c].pc = "idle" /\ loads'[c].pc = "fetching" =>
              /\ ~C4_WithinTTL(loads'[c].kind)
              /\ returned' = returned
       /\ C4_ReturnsAtOnce =>
              /\ C4_WithinTTL(returned'.kind)
              /\ returned'.fetches = 0
              /\ returned'.loaded = C4_Cached(returned'.kind)
       /\ \A c \in Calls : loads[c].pc = "fetching" /\ loads'[c].pc = "idle" =>
              returned'.fetches = 1]_vars

\* a call was served the cached empty array one millisecond before the TTL ran out,
\* while another call's fetch was still pending
C4_Witness ==
    /\ returned.kind \in {"list", "sources"}
    /\ returned.fetches = 0
    /\ returned.loaded = Some(<<>>)
    /\ clock - lastCacheTime = CACHE_DURATION - 1
    /\ \E c \in Calls : loads[c].pc = "fetching"

\* the source filter of the query is in force, and item passes it
C7_Filtering == query.source.set /\ \E i \in 1..Len(query.source.v) : query.source.v[i] # " "
C7_Passes(item) ==
    C7_Filtering =>
        \E k \in 1..Len(item.source) :
            StartsWith(SubSeq(ToLowerCase(item.source), k, Len(item.source)),
                       ToLowerCase(query.source.v))

\* C7: for page >= 1 and pageSize >= 1 a loaded catalog gives code 200, total = the number
\* of items passing the filter, totalPage = ceil(total / pageSize), page = the parsed page
\* and list = the passing items number (page-1)*pageSize+1 .. page*pageSize in catalog
\* order (none beyond totalPage); 45 items by 20: 20 on page 1, 5 on page 3, 0 on page 4.
C7_Pagination ==
    LET page == ParseInt(IF StrTruthy(query.page) THEN query.page.v ELSE <<"1">>)
        all == returned.loaded.v
        size == returned.pageSize
        res == returned.result
        passing == {i \in 1..Len(all) : C7_Passes(all[i])}
        total == Cardinality(passing)
        first == (page.n - 1) * size
        rest == IF total > first THEN total - first ELSE 0
    IN returned.kind = "list" /\ returned.loaded.set /\ ~page.nan /\ page.n >= 1 =>
        /\ res.code = 200 /\ returned.http = 200
        /\ res.total = total
        /\ res.totalPage * size >= total /\ (res.totalPage - 1) * size < total
        /\ res.page = page.n
        /\ Len(res.list) = IF rest < size THEN rest ELSE size
        /\ \A j \in 1..Len(res.list) :
              \E i \in passing :
                  /\ Cardinality({k \in passing : k <= i}) = first + j
                  /\ res.list[j] = all[i]
        /\ (all = Catalog45 /\ ~C7_Filtering /\ size = 20 =>
              /\ res.totalPage = 3
              /\ (page.n = 1 => Len(res.list) = 20)
              /\ (page.n = 3 => Len(res.list) = 5)
              /\ (page.n = 4 => res.list = <<>>))

\* page 4 of 45 items by 20 came back empty with code 200
C7_Witness ==
    /\ returned.kind = "list"
    /\ returned.loaded = Some(Catalog45)
    /\ query = [page |-> Some(<<"4">>), source |-> Null, pageSize |-> Null]
    /\ returned.result.code = 200
    /\ returned.result.list = <<>>
    /\ returned.result.totalPage = 3

\* the page argument does not parse ("a") or parses below 1 ("0", "-1")
C8_BadPage == query.page \in {Some(<<"0">>), Some(<<"a">>), Some(<<"-", "1">>)}

C8_Is400 ==
    /\ returned.result = ListResponse(400, <<>>, 0, 1, 0, "Invalid page number")
    /\ returned.http = 400

\* C8, as claimed: a bad page gives code 400 (empty list, total 0, page 1, totalPage 0,
\* "Invalid page number") and HTTP 400 whatever the filter, the pageSize, the cache and
\* the outcome of the catalog fetch.
C8_BadPageIs400 ==
    returned.kind = "list" /\ C8_BadPage => C8_Is400

\* C8, amended: a bad page gives that 400 result whenever the catalog load succeeds (from
\* the cache or by a fetch); when the load fails the result is code 500, HTTP 500.
C8_BadPageIs400IfLoaded ==
    returned.kind = "list" /\ C8_BadPage =>
        IF returned.loaded.set THEN C8_Is400
        ELSE returned.result.code = 500 /\ returned.http = 500

\* a bad page with a source filter was answered 400 from the cache
C8_Witness ==
    /\ returned.kind = "list" /\ C8_BadPage /\ C7_Filtering
    /\ returned.fetches = 0
    /\ returned.result.code = 400

\* C9: a failed catalog fetch is not retried and leaves cachedData and lastCacheTime as
\* they were; getWallpaperList then returns code 500 with list [], total 0, page 1,
\* totalPage 0 and getAvailableSources returns [], never the expired data.
C9_FailedLoad ==
    [][\A c \in Calls :
          /\ loads[c].pc = "fetching" /\ loads'[c].pc = "idle"
          /\ loads[c].kind \in {"list", "sources"}
          /\ returned'.failed
          => /\ cachedData' = cachedData /\ lastCacheTime' = lastCacheTime
             /\ returned'.fetches = 1
             /\ ~returned'.loaded.set
             /\ (loads[c].kind = "list" =>
                    /\ returned'.result.code = 500
                    /\ returned'.result.list = <<>>
                    /\ returned'.result.total = 0
                    /\ returned'.result.page = 1
                    /\ returned'.result.totalPage = 0
                    /\ returned'.http = 500)
             /\ (loads[c].kind = "sources" => returned'.result = <<>>)]_vars

\* a fetch failed while the cache held expired, non-empty data
C9_Witness ==
    /\ returned.failed
    /\ returned.kind = "sources"
    /\ cachedData.set /\ cachedData.v # <<>>
    /\ clock - lastCacheTime >= CACHE_DURATION

(***************************************************************************)
(* Properties of the Bing handler.                                         *)
(***************************************************************************)
C11_Empty500 ==
    /\ returned.result.code = 500
    /\ returned.result.url = <<>>
    /\ returned.result.list = <<>>
    /\ returned.result.total = 0

\* every getBingWallpaperList call returns a response: code 200 only for a feed of at
\* least one entry, with url = the Bing host + the first entry's url, the feed as list and
\* its length as total; code 500 with url '', list [], total 0 when the fetch failed or
\* the loaded feed is empty
C11_WellFormed ==
    returned.kind = "bing" =>
        /\ returned.result.code \in {200, 500}
        /\ returned.result.code = 200 =>
              /\ returned.loaded.set /\ Len(returned.loaded.v) >= 1
              /\ returned.result.url
                    = <<"https://www.bing.com">> \o returned.loaded.v[1].url
              /\ returned.result.list = returned.loaded.v
              /\ returned.result.total = Len(returned.loaded.v)
        /\ returned.failed \/ returned.loaded = Some(<<>>) => C11_Empty500

\* C11: getBingWallpaperList always returns such a response, and once a zero-entry feed
\* has been fetched a later call fetches again: no call is answered from a cached empty
\* feed without a fetch of its own.
C11_BingNeverStuck ==
    /\ C11_WellFormed
    /\ returned.kind = "bing" /\ returned.fetches = 0 => returned.loaded # Some(<<>>)

\* a call made within the hour after a zero-entry feed was fetched got code 500 from the
\* cached empty array, without fetching
C11_Witness ==
    /\ returned.kind = "bing"
    /\ returned.fetches = 0
    /\ returned.loaded = Some(<<>>)
    /\ cachedBingData = Some(<<>>)
    /\ clock > lastBingCacheTime
    /\ C11_Empty500

(***************************************************************************)
(* Properties of concurrent catalog loads.                                 *)
(***************************************************************************)
\* C12: under every interleaving of concurrent loadWallpaperData calls lastCacheTime
\* never decreases: a fetch that completes later never stores a timestamp older than the
\* one already in the cache.
C12_LastCacheTimeMonotone ==
    [][lastCacheTime' >= lastCacheTime]_vars

(***************************************************************************)
(* Properties of the URL converters.                                       *)
(***************************************************************************)
C10_Url == ParseURL(conv.url)
C10_SameHost == C10_Url.ok /\ C10_Url.hostname = conv.config.originalDomain
C10_Converted == conv.phase \in {"proxied", "back"}

\* C10 as stated: every well-formed URL whose hostname is config.originalDomain converts
\* to a non-null proxy URL that convertToOriginalUrl maps back to the same URL, and every
\* URL of another hostname converts to null.
C10_RoundTripForDomain ==
    /\ C10_Converted /\ C10_SameHost => conv.proxyUrl.set
    /\ conv.phase = "back" /\ C10_SameHost => conv.back = Some(conv.url)
    /\ C10_Converted /\ C10_Url.ok /\ ~C10_SameHost => ~conv.proxyUrl.set

\* the URL is literally https://<originalDomain>/wallpaper/<rest>: rest non-empty, no
\* port, query or fragment, no dot segment, nothing the parser would percent-encode
C10_Canonical ==
    /\ Len(conv.url) > 6
    /\ SubSeq(conv.url, 1, 6)
          = <<"https:", "//", conv.config.originalDomain, "/", "wallpaper", "/">>
    /\ C10_SameHost
    /\ \A i \in 7..Len(conv.url) :
          /\ conv.url[i] \notin QueryToks \cup HashToks \cup {".."}
          /\ EncodeTok(conv.url[i]) = conv.url[i]

\* C10, amended: a URL of the literal form https://<originalDomain>/wallpaper/<rest>
\* converts to baseUrl + proxyPath + "/" + rest and back to itself; convertToProxyUrl is
\* non-null exactly for the URLs that parse, have hostname config.originalDomain and a
\* pathname containing "/wallpaper/" followed by at least one character, so it is null
\* for every other hostname.
C10_RoundTripForWallpaperUrls ==
    /\ C10_Converted /\ C10_Canonical =>
          conv.proxyUrl = Some(conv.config.baseUrl \o conv.config.proxyPath \o <<"/">>
                               \o SubSeq(conv.url, 7, Len(conv.url)))
    /\ conv.phase = "back" /\ C10_Canonical => conv.back = Some(conv.url)
    /\ C10_Converted =>
          (conv.proxyUrl.set <=>
              /\ C10_SameHost
              /\ MatchAfter(C10_Url.pathname, <<"/", "wallpaper", "/">>).set)

\* a wallpaper URL whose rest itself contains the proxy path has gone there and back
C10_Witness ==
    /\ conv.phase = "back"
    /\ C10_Canonical
    /\ conv.config = DEFAULT_PROXY_CONFIG
    /\ IndexOf(conv.url, <<"/", "api", "/", "wallpaper", "/">>) # 0
    /\ conv.back = Some(conv.url)

====
